---- MODULE Spec2Model ----
(***************************************************************************)
(* Model of the AspireLearn API services: the role resolvers, the auth     *)
(* gate, the answer synchronisation step and the course cascade            *)
(* (create / update / delete of a course with its lessons, quizzes,        *)
(* questions and answers).                                                 *)
(***************************************************************************)
EXTENDS Integers, Sequences, FiniteSets, TLC

\* ------------------------------------------------------------------ bounds
MaxHeaderLen == 3
MaxLessons == 2
MaxQuizzes == 2
MaxOptions == 2
MaxRows == 2
MaxAnswerId == 2
MaxUsers == 2
MaxFiles == 2

\* Python's None
None == "None"

RECURSIVE SeqsUpTo(_, _)
\* all sequences over S of length 0..n
SeqsUpTo(S, n) ==
  IF n = 0 THEN {<<>>}
  ELSE LET shorter == SeqsUpTo(S, n - 1)
       IN shorter \cup {Append(s, x) : s \in {t \in shorter : Len(t) = n - 1}, x \in S}

Range(s) == {s[i] : i \in 1..Len(s)}

\* =====================================================================
\* Role resolvers
\* =====================================================================

\* names a Group row can carry (auth_group.name is case-sensitively unique)
GroupNames ==
  {"admin", "Admin", "ADMIN", "instructor", "Instructor", "student", "Student", "staff"}

\* str.lower() on the group names above
Lower(name) ==
  CASE name \in {"admin", "Admin", "ADMIN"}      -> "admin"
    [] name \in {"instructor", "Instructor"}     -> "instructor"
    [] name \in {"student", "Student"}           -> "student"
    [] OTHER                                     -> name

\* BaseUserSerializer.get_role, applied to the list of group names
BaseUserSerializer_get_role(group_names) ==
  LET lowered == {Lower(n) : n \in group_names}
  IN IF "admin" \in lowered THEN "Admin"
     ELSE IF "instructor" \in lowered THEN "Instructor"
     ELSE IF "student" \in lowered THEN "Student"
     ELSE None

\* UserSerializer.get_role: membership is tested on the raw names
UserSerializer_get_role(group_names) ==
  IF "admin" \in group_names THEN "admin"
  ELSE IF "instructor" \in group_names THEN "instructor"
  ELSE IF "student" \in group_names THEN "student"
  ELSE "unknown"

\* =====================================================================
\* Auth gate
\* =====================================================================

\* A path is a sequence of text pieces; startswith is the prefix relation.
StartsWith(s, p) == Len(p) <= Len(s) /\ SubSeq(s, 1, Len(p)) = p

api_version == "v1"

ApiPrefix == <<"/api/">>

excluded_routes ==
  << <<"/api/", api_version, "/auth/", "login">>,
     <<"/api/", api_version, "/auth/", "logout">> >>

Paths ==
  { <<"/api/", "v1", "/auth/", "login", "/">>,
    <<"/api/", "v1", "/auth/", "logout", "/">>,
    <<"/api/", "v1", "/auth/", "token/refresh/">>,
    <<"/api/", "v1", "/courses/">>,
    <<"/api/", "v1", "/users/">>,
    <<"/api/", "v1", "/auth/", "login", "-history/">>,
    <<"/admin/">> }

\* An Authorization header is None or a string, written as a sequence of
\* words and single spaces.
SP == " "
HeaderPieces == {"Bearer", "Basic", SP, "good", "expired", "garbage"}
NoHeader == [set |-> FALSE, text |-> <<>>]
Headers == {NoHeader} \cup {[set |-> TRUE, text |-> t] : t \in SeqsUpTo(HeaderPieces, MaxHeaderLen)}

\* Python truthiness of request.headers.get('Authorization')
Truthy(auth_header) == auth_header.set /\ auth_header.text # <<>>

RECURSIVE Split(_)
\* str.split(' '): the pieces between single spaces, empty pieces included
Split(h) ==
  IF \A i \in 1..Len(h) : h[i] # SP THEN <<h>>
  ELSE LET k == CHOOSE i \in 1..Len(h) : h[i] = SP /\ \A j \in 1..(i - 1) : h[j] # SP
       IN <<SubSeq(h, 1, k - 1)>> \o Split(SubSeq(h, k + 1, Len(h)))

\* JWTAuthentication.get_validated_token: only an unexpired, well-signed
\* access token validates
TokenIsValid_any(token) == TRUE

TokenIsValid(token) == token = <<"good">>

\* request.user as the gate finds it: not set, anonymous, or a session user
UsersBefore == {"unset", "anonymous", "session"}

Denied == {"Forbidden:permission", "Forbidden:invalid_token", "Forbidden:no_credentials"}

\* AuthenticationService.authenticate_request
authenticate_request(path, auth_header, user_before) ==
  IF StartsWith(path, ApiPrefix)
     /\ ~ \E i \in 1..Len(excluded_routes) : StartsWith(path, excluded_routes[i])
  THEN IF Truthy(auth_header)
       THEN LET parts == Split(auth_header.text)
            IN IF Len(parts) # 2 THEN "raise:ValueError"
               ELSE LET prefix == parts[1]
                        token  == parts[2]
                    IN IF prefix = <<"Bearer">>
                       THEN IF TokenIsValid(token)
                            THEN None  \* request.user := the token's user
                            ELSE "Forbidden:invalid_token"
                       ELSE CASE user_before = "unset"     -> "raise:AttributeError"
                              [] user_before = "anonymous" -> "Forbidden:permission"
                              [] OTHER                     -> None
       ELSE "Forbidden:no_credentials"
  ELSE None

\* =====================================================================
\* Persistence layer and entity services
\* =====================================================================
\* A database value db is a record of the tables and the id counters:
\*   courses   : [id, title, deleted]            (deleted: deleted_at is set)
\*   lessons   : [id, course, title, video_url]
\*   quizzes   : [id, course, title]
\*   questions : [id, quiz, text]
\*   answers   : [id, question, text, is_correct, is_multiple_choice]
\*   next      : next primary key of each table
\*   files     : number of video files written to storage
\* A service call returns [db, err, id]: the database after the call, the
\* exception that escaped it (None when it returned) and the id of the row
\* it created.

Ok(db, id) == [db |-> db, err |-> None, id |-> id]
Fail(db, e) == [db |-> db, err |-> e, id |-> 0]

EmptyDB ==
  [courses |-> {}, lessons |-> {}, quizzes |-> {}, questions |-> {}, answers |-> {},
   next |-> [course |-> 1, lesson |-> 1, quiz |-> 1, question |-> 1, answer |-> 1],
   files |-> 0]

\* data["course"] = course_id
WithCourse(data, course_id) ==
  [f \in DOMAIN data \cup {"course"} |-> IF f = "course" THEN course_id ELSE data[f]]

\* data["text"] = text
WithText(data, text) ==
  [f \in DOMAIN data \cup {"text"} |-> IF f = "text" THEN text ELSE data[f]]

\* Python falsiness of a text value: a missing key (None) or ""
Falsy(t) == t = None \/ t = ""

RECURSIVE SortById(_)
\* a queryset evaluated in primary-key order
SortById(rows) ==
  IF rows = {} THEN <<>>
  ELSE LET r == CHOOSE x \in rows : \A y \in rows : x.id <= y.id
       IN <<r>> \o SortById(rows \ {r})

\* CourseManager.get_queryset: the rows whose deleted_at is null
CourseManager_get_queryset(db) == {c \in db.courses : ~c.deleted}

\* CourseSerializer.validate_title; instance_id = 0 when creating.
\* TRUE when the value is accepted.
validate_title_unchecked(db, value, instance_id) == TRUE

validate_title_no_exclude(db, value, instance_id) ==
  {c \in CourseManager_get_queryset(db) : c.title = value} = {}

validate_title(db, value, instance_id) ==
  LET existing_course ==
        IF instance_id # 0
        THEN {c \in CourseManager_get_queryset(db) : c.title = value /\ c.id # instance_id}
        ELSE {c \in CourseManager_get_queryset(db) : c.title = value}
  IN existing_course = {}

\* title = models.CharField(max_length=255, unique=True): the unique index
\* of the courses table covers every row, soft-deleted rows included.
\* TRUE when writing the title for row_id would break it.
TitleUniqueViolated(db, value, row_id) ==
  \E c \in db.courses : c.title = value /\ c.id # row_id

\* ------------------------------------------------------------ AnswerService

\* AnswerService.get_answers_by_question: [err, list of serialized dicts]
get_answers_by_question(db, question_id) ==
  IF ~ \E q \in db.questions : q.id = question_id
  THEN [err |-> "Http404", list |-> <<>>]
  ELSE [err |-> None, list |-> SortById({a \in db.answers : a.question = question_id})]

\* AnswerService.create_answer
create_answer_drops_correct(db, question_id, data) ==
  IF ~ \E q \in db.questions : q.id = question_id THEN Fail(db, "Http404")
  ELSE IF Falsy(data.text) THEN Fail(db, "ValidationError")
  ELSE LET row == [id |-> db.next.answer, question |-> question_id, text |-> data.text,
                   is_correct |-> FALSE,
                   is_multiple_choice |-> data.is_multiple_choice]
       IN Ok([db EXCEPT !.answers = @ \cup {row}, !.next.answer = @ + 1], row.id)

create_answer(db, question_id, data) ==
  IF ~ \E q \in db.questions : q.id = question_id THEN Fail(db, "Http404")
  ELSE IF Falsy(data.text) THEN Fail(db, "ValidationError")
  ELSE LET row == [id |-> db.next.answer, question |-> question_id, text |-> data.text,
                   is_correct |-> data.is_correct,
                   is_multiple_choice |-> data.is_multiple_choice]
       IN Ok([db EXCEPT !.answers = @ \cup {row}, !.next.answer = @ + 1], row.id)

\* AnswerService.delete_answer
delete_answer(db, answer_id) ==
  IF ~ \E a \in db.answers : a.id = answer_id THEN Fail(db, "Http404")
  ELSE Ok([db EXCEPT !.answers = {a \in @ : a.id # answer_id}], 0)

\* AnswerService.delete_answer_by_question_and_text
delete_answer_by_question_and_text(db, question_id, answer_text) ==
  LET found == {a \in db.answers : a.question = question_id /\ a.text = answer_text}
  IN IF found = {} THEN Fail(db, "ValueError: answer not found")
     ELSE LET answer == SortById(found)[1]
          IN Ok([db EXCEPT !.answers = @ \ {answer}], 0)

\* AnswerService.delete_answers_by_question
delete_answers_by_question_silent(db, question_id) ==
  Ok([db EXCEPT !.answers = {a \in @ : a.question # question_id}], 0)

delete_answers_by_question(db, question_id) ==
  LET matched == {a \in db.answers : a.question = question_id}
      deleted_count == Cardinality(matched)
      db1 == [db EXCEPT !.answers = @ \ matched]
  IN IF deleted_count = 0 THEN Fail(db1, "ValueError: No answers found")
     ELSE Ok(db1, 0)

\* ---------------------------------------------------------- QuestionService

\* QuestionService.create_question
create_question(db, quiz_id, data) ==
  IF ~ \E z \in db.quizzes : z.id = quiz_id THEN Fail(db, "Http404")
  ELSE IF Falsy(data.text) THEN Fail(db, "ValidationError")
  ELSE LET row == [id |-> db.next.question, quiz |-> quiz_id, text |-> data.text]
       IN Ok([db EXCEPT !.questions = @ \cup {row}, !.next.question = @ + 1], row.id)

\* -------------------------------------------------------------- QuizService

\* QuizService.create_quiz
create_quiz(db, quiz) ==
  IF Falsy(quiz.title) \/ ~ \E c \in CourseManager_get_queryset(db) : c.id = quiz.course
  THEN Fail(db, "ValidationError")
  ELSE LET row == [id |-> db.next.quiz, course |-> quiz.course, title |-> quiz.title]
       IN Ok([db EXCEPT !.quizzes = @ \cup {row}, !.next.quiz = @ + 1], row.id)

\* QuizService.update_quiz: a partial update of the quiz's own fields
update_quiz(db, quiz_id, quiz) ==
  IF ~ \E z \in db.quizzes : z.id = quiz_id THEN Fail(db, "Http404")
  ELSE IF quiz.title = "" THEN Fail(db, "ValidationError")
  ELSE Ok([db EXCEPT !.quizzes =
             {IF z.id = quiz_id /\ quiz.title # None THEN [z EXCEPT !.title = quiz.title] ELSE z
              : z \in @}], quiz_id)

\* ------------------------------------------------------------ LessonService

StoredVideoUrl == "/media/videos/v"

\* utils.handle_video_upload: writes the file, returns its url
handle_video_upload(db) == [db |-> [db EXCEPT !.files = @ + 1], url |-> StoredVideoUrl]

\* LessonService.create_lesson
create_lesson(db, lesson_data) ==
  LET up   == IF lesson_data.video THEN handle_video_upload(db) ELSE [db |-> db, url |-> ""]
      db1  == up.db
  IN IF Falsy(lesson_data.title)
        \/ ~ \E c \in CourseManager_get_queryset(db1) : c.id = lesson_data.course
     THEN Fail(db1, "ValidationError")
     ELSE LET row == [id |-> db1.next.lesson, course |-> lesson_data.course,
                      title |-> lesson_data.title, video_url |-> up.url]
          IN Ok([db1 EXCEPT !.lessons = @ \cup {row}, !.next.lesson = @ + 1], row.id)

\* LessonService.update_lesson
update_lesson_keeps_url(db, lesson_id, lesson_data) ==
  IF ~ \E l \in db.lessons : l.id = lesson_id THEN Fail(db, "Http404")
  ELSE LET up  == IF lesson_data.video THEN handle_video_upload(db) ELSE [db |-> db, url |-> ""]
           db1 == up.db
       IN IF lesson_data.title = "" THEN Fail(db1, "ValidationError")
          ELSE Ok([db1 EXCEPT !.lessons =
                     {IF l.id = lesson_id
                      THEN [l EXCEPT !.title = IF lesson_data.title = None THEN @
                                               ELSE lesson_data.title,
                                     !.video_url = IF lesson_data.video THEN up.url ELSE @]
                      ELSE l : l \in @}], lesson_id)

update_lesson(db, lesson_id, lesson_data) ==
  IF ~ \E l \in db.lessons : l.id = lesson_id THEN Fail(db, "Http404")
  ELSE LET up  == IF lesson_data.video THEN handle_video_upload(db) ELSE [db |-> db, url |-> ""]
           db1 == up.db
       IN IF lesson_data.title = "" THEN Fail(db1, "ValidationError")
          ELSE Ok([db1 EXCEPT !.lessons =
                     {IF l.id = lesson_id
                      THEN [l EXCEPT !.title = IF lesson_data.title = None THEN @
                                               ELSE lesson_data.title,
                                     !.video_url = up.url]
                      ELSE l : l \in @}], lesson_id)

\* LessonService.get_lesson_by_id: the exception it raises, None when it returns
get_lesson_by_id(db, lesson_id) ==
  IF \E l \in db.lessons : l.id = lesson_id THEN None ELSE "Http404"

\* QuizService.get_quiz_by_id
get_quiz_by_id(db, quiz_id) ==
  IF \E z \in db.quizzes : z.id = quiz_id THEN None ELSE "Http404"

\* QuestionService.get_question_by_id
get_question_by_id(db, question_id) ==
  IF \E q \in db.questions : q.id = question_id THEN None ELSE "Http404"

\* AnswerService.get_answer_by_id
get_answer_by_id(db, answer_id) ==
  IF \E a \in db.answers : a.id = answer_id THEN None ELSE "Http404"

\* ------------------------------------------------------------ CourseService

\* {answer.text: answer for answer in list}: keys in insertion order, a later
\* element replaces an earlier one with the same text
DictByText(list) ==
  LET texts == {list[i].text : i \in 1..Len(list)}
      first(t) == CHOOSE i \in 1..Len(list) : list[i].text = t /\ \A j \in 1..(i - 1) : list[j].text # t
      last(t)  == CHOOSE i \in 1..Len(list) : list[i].text = t /\ \A j \in (i + 1)..Len(list) : list[j].text # t
  IN [keys |-> SortById({[id |-> first(t), text |-> t] : t \in texts}),
      val  |-> [t \in texts |-> list[last(t)]]]

\* The comprehension of _create_or_update_answers over the result of
\* get_answers_by_question. That result is serializer.data, a list of dicts,
\* and a dict has no attribute `text`: the first element raises.
existing_answers(list) ==
  IF Len(list) > 0
  THEN [err |-> "AttributeError", dict |-> DictByText(<<>>)]
  ELSE [err |-> None, dict |-> DictByText(list)]

\* answer.save() on a fetched answer object
answer_save(db, answer) ==
  [db EXCEPT !.answers = {a \in @ : a.id # answer.id} \cup {answer}]

RECURSIVE DeleteMissingOptions(_, _, _, _, _)
\* the loop "for option in existing_answers.keys()"
DeleteMissingOptions(db, question_id, keys, options_data, i) ==
  IF i > Len(keys) THEN Ok(db, 0)
  ELSE IF keys[i].text \notin Range(options_data)
       THEN LET r == delete_answer_by_question_and_text(db, question_id, keys[i].text)
            IN IF r.err # None THEN r
               ELSE DeleteMissingOptions(r.db, question_id, keys, options_data, i + 1)
       ELSE DeleteMissingOptions(db, question_id, keys, options_data, i + 1)

RECURSIVE AddOrUpdateOptions(_, _, _, _, _, _)
\* the loop "for option in options_data"; the dict is not refreshed inside it
AddOrUpdateOptions(db, question_id, options_data, correct_answer, dict, i) ==
  IF i > Len(options_data) THEN Ok(db, 0)
  ELSE LET option     == options_data[i]
           is_correct == option = correct_answer
       IN IF option \notin DOMAIN dict.val
          THEN LET r == create_answer(db, question_id,
                          [text |-> option, is_correct |-> is_correct,
                           is_multiple_choice |-> TRUE])
               IN IF r.err # None THEN r
                  ELSE AddOrUpdateOptions(r.db, question_id, options_data,
                                          correct_answer, dict, i + 1)
          ELSE LET answer == dict.val[option]
                   db1 == IF answer.is_correct # is_correct
                          THEN answer_save(db, [answer EXCEPT !.is_correct = is_correct])
                          ELSE db
               IN AddOrUpdateOptions(db1, question_id, options_data,
                                     correct_answer, dict, i + 1)

\* CourseService._create_or_update_answers, lines 184-232: the writes, made
\* from the dict that was read at lines 179-182
write_answers(db, question_id, question_data, dict) ==
  IF question_data.is_multiple_choice
  THEN LET d == DeleteMissingOptions(db, question_id, dict.keys,
                                     question_data.options, 1)
       IN IF d.err # None THEN d
          ELSE AddOrUpdateOptions(d.db, question_id, question_data.options,
                                  question_data.correct_answer, dict, 1)
  ELSE LET correct_answer == question_data.correct_answer
       IN IF correct_answer \in DOMAIN dict.val
          THEN Ok(answer_save(db, [dict.val[correct_answer]
                                     EXCEPT !.is_correct = TRUE]), 0)
          ELSE create_answer(db, question_id,
                 [text |-> correct_answer, is_correct |-> TRUE,
                  is_multiple_choice |-> FALSE])

\* CourseService._create_or_update_answers
create_or_update_answers(db, question_id, question_data) ==
  LET got == get_answers_by_question(db, question_id)
  IN IF got.err # None THEN Fail(db, got.err)
     ELSE LET ex == existing_answers(got.list)
          IN IF ex.err # None THEN Fail(db, ex.err)
             ELSE write_answers(db, question_id, question_data, ex.dict)

RECURSIVE CreateQuestions(_, _, _, _)
\* the question loop of create_lessons_and_quizzes
CreateQuestions(db, quiz_id, qs, i) ==
  IF i > Len(qs) THEN Ok(db, 0)
  ELSE LET question_data == qs[i]
       IN IF Falsy(question_data.title) THEN Fail(db, "ValueError: Question is missing.")
          ELSE LET renamed == WithText(question_data, question_data.title)
                   cq == create_question(db, quiz_id, renamed)
               IN IF cq.err # None THEN cq
                  ELSE LET s == create_or_update_answers(cq.db, cq.id, renamed)
                       IN IF s.err # None THEN s
                          ELSE CreateQuestions(s.db, quiz_id, qs, i + 1)

RECURSIVE CreateLessons(_, _, _, _)
\* the lesson loop of create_lessons_and_quizzes
CreateLessons(db, course_id, ls, i) ==
  IF i > Len(ls) THEN Ok(db, 0)
  ELSE IF course_id = 0 THEN Fail(db, "ValueError: Course ID is missing for the lesson.")
  ELSE LET r == create_lesson(db, WithCourse(ls[i], course_id))
       IN IF r.err # None THEN r
          ELSE IF r.id = 0 THEN Fail(r.db, "ValueError: Failed to Lesson")
          ELSE CreateLessons(r.db, course_id, ls, i + 1)

RECURSIVE CreateQuizzes(_, _, _, _)
\* the quiz loop of create_lessons_and_quizzes
CreateQuizzes(db, course_id, zs, i) ==
  IF i > Len(zs) THEN Ok(db, 0)
  ELSE LET quiz == zs[i]
       IN IF course_id = 0 THEN Fail(db, "ValueError: Course ID is missing for the quiz.")
          ELSE IF Len(quiz.questions) = 0
               THEN Fail(db, "ValueError: Each quiz must have questions.")
          ELSE IF Falsy(quiz.title) THEN Fail(db, "ValueError: Quiz title/text is missing.")
          ELSE LET cz == create_quiz(db, WithCourse(quiz, course_id))
               IN IF cz.err # None THEN cz
                  ELSE LET qr == CreateQuestions(cz.db, cz.id, quiz.questions, 1)
                       IN IF qr.err # None THEN qr
                          ELSE CreateQuizzes(qr.db, course_id, zs, i + 1)

\* CourseService.create_lessons_and_quizzes
create_lessons_and_quizzes_atomic(db, course_id, ls, zs) ==
  LET lr == CreateLessons(db, course_id, ls, 1)
      r  == IF lr.err # None THEN lr
            ELSE IF Len(zs) > 0 THEN CreateQuizzes(lr.db, course_id, zs, 1)
            ELSE lr
  IN IF r.err # None THEN Fail(db, r.err) ELSE r

create_lessons_and_quizzes(db, course_id, ls, zs) ==
  LET lr == CreateLessons(db, course_id, ls, 1)
  IN IF lr.err # None THEN lr
     ELSE IF Len(zs) > 0 THEN CreateQuizzes(lr.db, course_id, zs, 1)
     ELSE lr

\* CourseService.create_course
create_course_late_check(db, data) ==
  LET course == [id |-> db.next.course, title |-> data.title, deleted |-> FALSE]
      db1 == [db EXCEPT !.courses = @ \cup {course}, !.next.course = @ + 1]
  IN IF data.instructor = None THEN Fail(db1, "ValueError: Instructor is required")
     ELSE IF Falsy(data.title) \/ data.instructor # "valid"
             \/ ~validate_title(db, data.title, 0)
          THEN Fail(db, "ValidationError")
     ELSE IF TitleUniqueViolated(db, data.title, 0) THEN Fail(db, "IntegrityError")
     ELSE [create_lessons_and_quizzes(db1, course.id, data.lessons, data.quizzes)
             EXCEPT !.id = course.id]

create_course(db, data) ==
  IF data.instructor = None THEN Fail(db, "ValueError: Instructor is required")
  ELSE IF Falsy(data.title) \/ data.instructor # "valid"
          \/ ~validate_title(db, data.title, 0)
       THEN Fail(db, "ValidationError")
  ELSE IF TitleUniqueViolated(db, data.title, 0) THEN Fail(db, "IntegrityError")
  ELSE LET course == [id |-> db.next.course, title |-> data.title, deleted |-> FALSE]
           db1 == [db EXCEPT !.courses = @ \cup {course}, !.next.course = @ + 1]
           r == create_lessons_and_quizzes(db1, course.id, data.lessons, data.quizzes)
       IN [r EXCEPT !.id = course.id]

RECURSIVE UpdateLessons_any_course(_, _, _, _, _)
UpdateLessons_any_course(db, course_id, existing_lessons, ls, i) ==
  IF i > Len(ls) THEN Ok(db, 0)
  ELSE LET lesson == ls[i]
           r == IF lesson.id # 0 /\ \E l \in db.lessons : l.id = lesson.id
                THEN update_lesson(db, lesson.id, lesson)
                ELSE create_lesson(db, WithCourse(lesson, course_id))
       IN IF r.err # None THEN r
          ELSE UpdateLessons_any_course(r.db, course_id, existing_lessons, ls, i + 1)

RECURSIVE UpdateLessons(_, _, _, _, _)
\* the lesson loop of update_lessons_and_quizzes
UpdateLessons(db, course_id, existing_lessons, ls, i) ==
  IF i > Len(ls) THEN Ok(db, 0)
  ELSE LET lesson == ls[i]
           r == IF lesson.id # 0 /\ lesson.id \in existing_lessons
                THEN update_lesson(db, lesson.id, lesson)
                ELSE create_lesson(db, WithCourse(lesson, course_id))
       IN IF r.err # None THEN r
          ELSE UpdateLessons(r.db, course_id, existing_lessons, ls, i + 1)

\* CourseService._create_or_update_question_and_answers
create_or_update_question_and_answers(db, quiz_id, question_data) ==
  IF Falsy(question_data.title) THEN Fail(db, "ValueError: Question title is missing.")
  ELSE LET with_text == WithText(question_data, question_data.title)
           cq == create_question(db, quiz_id, with_text)
       IN IF cq.err # None THEN cq
          ELSE create_or_update_answers(cq.db, cq.id, with_text)

RECURSIVE UpdateQuestions(_, _, _, _)
\* the question loop of update_lessons_and_quizzes
UpdateQuestions(db, quiz_id, qs, i) ==
  IF i > Len(qs) THEN Ok(db, 0)
  ELSE LET r == create_or_update_question_and_answers(db, quiz_id, qs[i])
       IN IF r.err # None THEN r ELSE UpdateQuestions(r.db, quiz_id, qs, i + 1)

RECURSIVE UpdateQuizzes_resync(_, _, _, _, _)
UpdateQuizzes_resync(db, course_id, existing_quizzes, zs, i) ==
  IF i > Len(zs) THEN Ok(db, 0)
  ELSE LET quiz == zs[i]
       IN IF quiz.id # 0 /\ quiz.id \in existing_quizzes
          THEN LET r == update_quiz(db, quiz.id, quiz)
                   gone == {q \in r.db.questions : q.quiz = quiz.id}
                   db1 == [r.db EXCEPT !.questions = @ \ gone,
                                       !.answers = {a \in @ : \A q \in gone : a.question # q.id}]
                   qr == UpdateQuestions(db1, quiz.id, quiz.questions, 1)
               IN IF r.err # None THEN r
                  ELSE IF qr.err # None THEN qr
                  ELSE UpdateQuizzes_resync(qr.db, course_id, existing_quizzes, zs, i + 1)
          ELSE LET cz == create_quiz(db, WithCourse(quiz, course_id))
               IN IF cz.err # None THEN cz
                  ELSE LET qr == UpdateQuestions(cz.db, cz.id, quiz.questions, 1)
                       IN IF qr.err # None THEN qr
                          ELSE UpdateQuizzes_resync(qr.db, course_id, existing_quizzes, zs, i + 1)

RECURSIVE UpdateQuizzes(_, _, _, _, _)
\* the quiz loop of update_lessons_and_quizzes
UpdateQuizzes(db, course_id, existing_quizzes, zs, i) ==
  IF i > Len(zs) THEN Ok(db, 0)
  ELSE LET quiz == zs[i]
       IN IF quiz.id # 0 /\ quiz.id \in existing_quizzes
          THEN LET r == update_quiz(db, quiz.id, quiz)
               IN IF r.err # None THEN r
                  ELSE UpdateQuizzes(r.db, course_id, existing_quizzes, zs, i + 1)
          ELSE LET cz == create_quiz(db, WithCourse(quiz, course_id))
               IN IF cz.err # None THEN cz
                  ELSE LET qr == UpdateQuestions(cz.db, cz.id, quiz.questions, 1)
                       IN IF qr.err # None THEN qr
                          ELSE UpdateQuizzes(qr.db, course_id, existing_quizzes, zs, i + 1)

\* CourseService.update_lessons_and_quizzes
update_lessons_and_quizzes_replace(db, course_id, ls, zs) ==
  LET existing_lessons == {l.id : l \in {x \in db.lessons : x.course = course_id}}
      existing_quizzes == {z.id : z \in {x \in db.quizzes : x.course = course_id}}
      kept == [db EXCEPT !.lessons = {l \in @ : l.course # course_id
                                                \/ \E i \in 1..Len(ls) : ls[i].id = l.id}]
      lr == UpdateLessons(kept, course_id, existing_lessons, ls, 1)
  IN IF lr.err # None THEN lr
     ELSE UpdateQuizzes(lr.db, course_id, existing_quizzes, zs, 1)

update_lessons_and_quizzes(db, course_id, ls, zs) ==
  LET existing_lessons == {l.id : l \in {x \in db.lessons : x.course = course_id}}
      existing_quizzes == {z.id : z \in {x \in db.quizzes : x.course = course_id}}
      lr == UpdateLessons(db, course_id, existing_lessons, ls, 1)
  IN IF lr.err # None THEN lr
     ELSE UpdateQuizzes(lr.db, course_id, existing_quizzes, zs, 1)

\* CourseService.update_course; a title of None is a payload without title
update_course(db, course_id, data) ==
  IF ~ \E c \in CourseManager_get_queryset(db) : c.id = course_id THEN Fail(db, "Http404")
  ELSE IF data.title # None /\ (data.title = "" \/ ~validate_title(db, data.title, course_id))
       THEN Fail(db, "ValidationError")
  ELSE IF data.title # None /\ TitleUniqueViolated(db, data.title, course_id)
       THEN Fail(db, "IntegrityError")
  ELSE LET db1 == [db EXCEPT !.courses =
                     {IF c.id = course_id /\ data.title # None
                      THEN [c EXCEPT !.title = data.title] ELSE c : c \in @}]
       IN IF Len(data.lessons) > 0 \/ Len(data.quizzes) > 0
          THEN [update_lessons_and_quizzes(db1, course_id, data.lessons, data.quizzes)
                  EXCEPT !.id = course_id]
          ELSE Ok(db1, course_id)

\* SoftDeleteModel.delete: the row stays, deleted_at is set
SoftDeleteModel_delete(db, course_id) ==
  [db EXCEPT !.courses = {IF c.id = course_id THEN [c EXCEPT !.deleted = TRUE] ELSE c : c \in @}]

\* CourseService.delete_course
delete_course(db, course_id) ==
  IF ~ \E c \in CourseManager_get_queryset(db) : c.id = course_id THEN Fail(db, "Http404")
  ELSE Ok(SoftDeleteModel_delete(db, course_id), course_id)

\* =====================================================================
\* User service
\* =====================================================================
\* A user database udb is [groups, users]: the names of the Group rows and
\* the User rows [id, username, email, groups].

\* role strings a client sends
RoleInputs == {"admin", "ADMIN", "student", "teacher"}

\* str.capitalize() on the role strings above
Capitalize(role) ==
  CASE role \in {"admin", "ADMIN"} -> "Admin"
    [] role = "student"            -> "Student"
    [] role = "instructor"         -> "Instructor"
    [] role = "teacher"            -> "Teacher"
    [] OTHER                       -> role

\* a validate_email that accepts every value
validate_email_any(udb, value) == TRUE

\* UserSerializer.validate_email: TRUE when the value is accepted
validate_email(udb, value) == ~ \E u \in udb.users : u.email = value

\* the email column of a row saved from data: User.email is blank by default
\* (None is a payload without the email key)
StoredEmail(data) == IF data.email = None THEN "" ELSE data.email

\* UserSerializer(data=data).is_valid(): the required fields, the unique
\* username of the User model and validate_email, which runs when the
\* payload has the email key
UserSerializer_is_valid(udb, data) ==
  /\ ~Falsy(data.username) /\ ~Falsy(data.first_name)
  /\ ~ \E u \in udb.users : u.username = data.username
  /\ (data.email # None => validate_email(udb, data.email))

\* UserSerializer(user, data=data, partial=True).is_valid(): no key is
\* required; the unique username check leaves the instance out,
\* validate_email does not
UserSerializer_is_valid_partial(udb, user, data) ==
  /\ (data.username # None =>
        /\ data.username # ""
        /\ ~ \E u \in udb.users : u.id # user.id /\ u.username = data.username)
  /\ (data.email # None => validate_email(udb, data.email))

\* DashUsersService.get_user_by_id: [err, role], role being the "role" key
\* of UserSerializer(user).data
get_user_by_id(udb, user_id) ==
  IF ~ \E u \in udb.users : u.id = user_id THEN [err |-> "Http404", role |-> None, groups |-> {}]
  ELSE LET user == CHOOSE u \in udb.users : u.id = user_id
       IN [err |-> None, role |-> UserSerializer_get_role(user.groups), groups |-> user.groups]

\* DashUsersService.create_user; a role of None is a payload without role
create_user_no_attach(udb, data) ==
  IF data.role # None /\ Capitalize(data.role) \notin udb.groups
  THEN [udb |-> udb, err |-> "ValueError: Group does not exist", id |-> 0]
  ELSE IF ~UserSerializer_is_valid(udb, data)
       THEN [udb |-> udb, err |-> "ValidationError", id |-> 0]
  ELSE LET user == [id |-> Cardinality(udb.users) + 1, username |-> data.username,
                    email |-> StoredEmail(data), groups |-> {}]
       IN [udb |-> [udb EXCEPT !.users = @ \cup {user}], err |-> None, id |-> user.id]

create_user(udb, data) ==
  IF data.role # None /\ Capitalize(data.role) \notin udb.groups
  THEN [udb |-> udb, err |-> "ValueError: Group does not exist", id |-> 0]
  ELSE LET groups == IF data.role # None THEN {Capitalize(data.role)} ELSE {}
       IN IF ~UserSerializer_is_valid(udb, data)
          THEN [udb |-> udb, err |-> "ValidationError", id |-> 0]
          ELSE LET user == [id |-> Cardinality(udb.users) + 1, username |-> data.username,
                            email |-> StoredEmail(data), groups |-> {}]
                   added == [user EXCEPT !.groups = @ \cup groups]
               IN [udb |-> [udb EXCEPT !.users = @ \cup {added}], err |-> None, id |-> user.id]

\* DashUsersService.update_user; data holds the keys username and email,
\* None for a key the payload does not have
update_user(udb, user_id, data) ==
  IF ~ \E u \in udb.users : u.id = user_id
  THEN [udb |-> udb, err |-> "Http404", id |-> 0]
  ELSE LET user == CHOOSE u \in udb.users : u.id = user_id
       IN IF ~UserSerializer_is_valid_partial(udb, user, data)
          THEN [udb |-> udb, err |-> "ValidationError", id |-> 0]
          ELSE LET saved == [user EXCEPT
                               !.username = IF data.username # None THEN data.username ELSE @,
                               !.email = IF data.email # None THEN data.email ELSE @]
               IN [udb |-> [udb EXCEPT !.users = (@ \ {user}) \cup {saved}],
                   err |-> None, id |-> user_id]

\* =====================================================================
\* Views
\* =====================================================================
HTTP_201_CREATED == 201
HTTP_400_BAD_REQUEST == 400

\* the status an APIView answers with when err escapes the handler: a
\* validation error is a 400, Http404 a 404, any other exception a 500
ExceptionStatus(err) ==
  CASE err = "ValidationError" -> 400
    [] err = "Http404"         -> 404
    [] OTHER                   -> 500

\* Response(entity, status=...) of a post handler around service result r;
\* created is the id of the entity in the body, 0 when there is none
PostResponse(view, r, success_status) ==
  IF r.err = None THEN [view |-> view, status |-> success_status, created |-> r.id]
  ELSE [view |-> view, status |-> ExceptionStatus(r.err), created |-> 0]

\* CoursesView.post
CoursesView_post(db, data) ==
  LET r == create_course(db, data)
  IN [r |-> r, response |-> PostResponse("courses", r, HTTP_400_BAD_REQUEST)]

\* LessonsView.post: course_id goes to the key "course_id", the serializer
\* reads the key "course" of the body
LessonsView_post(db, course_id, lesson_data) ==
  LET r == create_lesson(db, lesson_data)
  IN [r |-> r, response |-> PostResponse("lessons", r, HTTP_201_CREATED)]

\* QuizzesView.post
QuizzesView_post(db, data) ==
  LET r == create_quiz(db, data)
  IN [r |-> r, response |-> PostResponse("quizzes", r, HTTP_201_CREATED)]

\* QuestionsView.post; quiz_id = 0 is a route without quiz_id
QuestionsView_post(db, quiz_id, data) ==
  IF quiz_id = 0
  THEN [r |-> Fail(db, "quiz_id is required"),
        response |-> [view |-> "questions", status |-> HTTP_400_BAD_REQUEST, created |-> 0]]
  ELSE LET r == create_question(db, quiz_id, data)
       IN [r |-> r, response |-> PostResponse("questions", r, HTTP_201_CREATED)]

\* UsersView.post
UsersView_post(udb, data) ==
  LET r == create_user(udb, data)
  IN [r |-> r, response |-> PostResponse("users", r, HTTP_201_CREATED)]

\* =====================================================================
\* Inputs
\* =====================================================================
Titles == {"T1", "T2"}
Labels == {"A", "B", "C"}

Question(title, mc, options, correct) ==
  [title |-> title, is_multiple_choice |-> mc, options |-> options, correct_answer |-> correct]
Lesson(id, title, video) == [id |-> id, title |-> title, video |-> video]
Quiz(id, title, qs) == [id |-> id, title |-> title, questions |-> qs]
Course(title, instructor, ls, zs) ==
  [title |-> title, instructor |-> instructor, lessons |-> ls, quizzes |-> zs]

\* the payloads of the cascade: a multiple-choice question, a single-answer
\* question and a question without title
QMulti    == Question("Q1", TRUE, <<"A", "B", "C">>, "B")
QSingle   == Question("Q2", FALSE, <<>>, "X")
QUntitled == Question("", FALSE, <<>>, "X")

ZGood        == Quiz(0, "Z", <<QMulti, QSingle>>)
ZNoQuestions == Quiz(0, "Z", <<>>)
ZNoTitle     == Quiz(0, "", <<QSingle>>)
ZBadQuestion == Quiz(0, "Z", <<QSingle, QUntitled>>)

\* quiz lists of the cascade: valid quizzes with at most one rejected quiz
\* among them, at any position
CascadeQuizzes ==
  LET good == SeqsUpTo({ZGood}, MaxQuizzes)
      mixed == {g \o <<z>> \o h : g \in good, h \in good,
                                   z \in {ZNoQuestions, ZNoTitle, ZBadQuestion}}
  IN good \cup {x \in mixed : Len(x) <= MaxQuizzes}
CascadeLessons == SeqsUpTo({Lesson(0, "L", FALSE)}, MaxLessons)

\* create_course payloads of the cascade specification
CascadeInputs ==
  {Course("T1", "valid", ls, zs) : ls \in CascadeLessons, zs \in CascadeQuizzes}
  \cup {Course("T1", None, <<Lesson(0, "L", FALSE)>>, <<ZGood>>),
        Course("T2", "valid", <<>>, <<>>),
        Course("T2", "valid", <<Lesson(0, "L", FALSE)>>, <<ZGood>>)}

\* question payloads of the answer-sync specification
SyncQuestions ==
  {Question("Q", TRUE, o, c) : o \in SeqsUpTo(Labels, MaxOptions), c \in Labels}
  \cup {Question("Q", FALSE, <<>>, c) : c \in Labels}

\* create_course / update_course payloads of the course life cycle
LifeInputs ==
  {Course(t, "valid", <<>>, <<>>) : t \in Titles}
  \cup {Course("T1", "valid", <<Lesson(0, "L", FALSE)>>, <<Quiz(0, "Z", <<QSingle>>)>>)}
\* partial updates: a title alone, children alone, and a title with new children
UpdateInputs ==
  {Course(t, None, <<>>, <<>>) : t \in Titles}
  \cup {Course(None, None, ls, <<>>) :
      ls \in {<<Lesson(0, "L", FALSE)>>, <<Lesson(1, "L2", FALSE)>>}}
  \cup {Course(None, None, <<>>, zs) :
      zs \in {<<Quiz(0, "Z", <<QSingle>>)>>, <<Quiz(1, "Z2", <<>>)>>}}
  \cup {Course("T1", None, <<Lesson(0, "L", FALSE)>>, <<Quiz(0, "Z", <<QSingle>>)>>)}

\* =====================================================================
\* State
\* =====================================================================
VARIABLES
  courses, lessons, quizzes, questions, answers,   \* the tables
  next_id,       \* next primary key of each table
  files,         \* number of stored video files
  last,          \* the last service call: operation, arguments, outcome
  user_groups,   \* names of the groups the observed user is a member of
  lastRead,      \* the last serialisation of the user: resolver and role
  lastAuth,      \* the last request seen by the gate and its outcome
  auth_group,    \* names of the Group rows
  auth_user,     \* the User rows: [id, username, email, groups]
  lastUser,      \* the last call of the user service and its outcome
  response,      \* the last HTTP response of a view
  race           \* the two interleaved answer-sync requests: position and what was read

tables == <<courses, lessons, quizzes, questions, answers, next_id, files>>
userVars == <<auth_group, auth_user, lastUser>>
vars == <<courses, lessons, quizzes, questions, answers, next_id, files, last,
          user_groups, lastRead, lastAuth, auth_group, auth_user, lastUser, response, race>>

DB == [courses |-> courses, lessons |-> lessons, quizzes |-> quizzes,
       questions |-> questions, answers |-> answers, next |-> next_id, files |-> files]

\* the tables become those of d
Commit(d) ==
  /\ courses' = d.courses
  /\ lessons' = d.lessons
  /\ quizzes' = d.quizzes
  /\ questions' = d.questions
  /\ answers' = d.answers
  /\ next_id' = d.next
  /\ files' = d.files

\* title of course course_id as a call finds it (None: no such live course)
TitleOf(course_id) ==
  IF \E c \in courses : c.id = course_id /\ ~c.deleted
  THEN (CHOOSE c \in courses : c.id = course_id).title
  ELSE None

NoCall == [op |-> "none", arg |-> 0, data |-> None, before |-> None, err |-> None, id |-> 0]
Call(op, arg, data, before, r) ==
  [op |-> op, arg |-> arg, data |-> data, before |-> before, err |-> r.err, id |-> r.id]
NoRead == [resolver |-> None, role |-> None, groups |-> {}]
NoAuth == [path |-> <<>>, header |-> NoHeader, user_before |-> "unset", result |-> "none yet"]
NoUserCall == [op |-> "none", username |-> None, email |-> None, first_name |-> None,
               role |-> None, err |-> None, id |-> 0]
NoResponse == [view |-> "none", status |-> 0, created |-> 0]
NoRequest == [pc |-> "idle", question_id |-> 0, data |-> Question("", FALSE, <<>>, ""),
              err |-> None, dict |-> DictByText(<<>>)]

Init ==
  /\ courses = EmptyDB.courses
  /\ lessons = EmptyDB.lessons
  /\ quizzes = EmptyDB.quizzes
  /\ questions = EmptyDB.questions
  /\ answers = EmptyDB.answers
  /\ next_id = EmptyDB.next
  /\ files = EmptyDB.files
  /\ last = NoCall
  /\ user_groups = {}
  /\ lastRead = NoRead
  /\ lastAuth = NoAuth
  /\ auth_group = {}
  /\ auth_user = {}
  /\ lastUser = NoUserCall
  /\ response = NoResponse
  /\ race = [p \in 1..2 |-> NoRequest]

\* ----------------------------------------------------------- course actions

\* CourseService.create_course(data), data drawn from D
CreateCourse(D) ==
  \E data \in D :
    LET r == create_course(DB, data)
    IN /\ Commit(r.db)
       /\ last' = Call("create_course", 0, data, None, r)
       /\ UNCHANGED <<user_groups, lastRead, lastAuth, userVars, response, race>>

\* CourseService.update_course(course_id, data)
UpdateCourse ==
  \E course_id \in 1..Cardinality(Titles), data \in UpdateInputs :
    LET r == update_course(DB, course_id, data)
    IN /\ r.db.next.lesson <= MaxRows + 1
       /\ r.db.next.quiz <= MaxRows + 1
       /\ Commit(r.db)
       /\ last' = Call("update_course", course_id, data, TitleOf(course_id), r)
       /\ UNCHANGED <<user_groups, lastRead, lastAuth, userVars, response, race>>

\* CourseService.delete_course(course_id)
DeleteCourse ==
  \E course_id \in 1..Cardinality(Titles) :
    LET r == delete_course(DB, course_id)
    IN /\ Commit(r.db)
       /\ last' = Call("delete_course", course_id, None, TitleOf(course_id), r)
       /\ UNCHANGED <<user_groups, lastRead, lastAuth, userVars, response, race>>

CreateLife == CreateCourse(LifeInputs)

Next ==
  \/ CreateLife
  \/ UpdateCourse
  \/ DeleteCourse

Spec == Init /\ [][Next]_vars

CreateCascade == CreateCourse(CascadeInputs)

NextCascade ==
  \/ CreateCascade
  \/ DeleteCourse

SpecCascade == Init /\ [][NextCascade]_vars

\* ------------------------------------------------------- answer-sync actions

\* a course with one quiz holding one question
SetUpQuestion ==
  \E q \in SyncQuestions :
    LET data == Course("T1", "valid", <<>>, <<Quiz(0, "Z", <<q>>)>>)
        r == create_course(DB, data)
    IN /\ courses = {}
       /\ Commit(r.db)
       /\ last' = Call("create_course", 0, data, None, r)
       /\ UNCHANGED <<user_groups, lastRead, lastAuth, userVars, response, race>>

\* CourseService._create_or_update_answers(question_id, question_data)
SyncAnswers ==
  \E question_id \in {q.id : q \in questions}, question_data \in SyncQuestions :
    LET r == create_or_update_answers(DB, question_id, question_data)
    IN /\ next_id.answer <= MaxAnswerId
       /\ Commit(r.db)
       /\ last' = Call("sync", question_id, question_data, None, r)
       /\ UNCHANGED <<user_groups, lastRead, lastAuth, userVars, response, race>>

\* AnswerService.create_answer(question_id, data)
CreateAnswer ==
  \E question_id \in {q.id : q \in questions}, t \in Labels, c \in BOOLEAN :
    LET data == [text |-> t, is_correct |-> c, is_multiple_choice |-> FALSE]
        r == create_answer(DB, question_id, data)
    IN /\ next_id.answer <= MaxAnswerId
       /\ Commit(r.db)
       /\ last' = Call("create_answer", question_id, data, None, r)
       /\ UNCHANGED <<user_groups, lastRead, lastAuth, userVars, response, race>>

\* AnswerService.delete_answer(answer_id)
DeleteAnswer ==
  \E answer_id \in {a.id : a \in answers} :
    LET r == delete_answer(DB, answer_id)
    IN /\ Commit(r.db)
       /\ last' = Call("delete_answer", answer_id, None, None, r)
       /\ UNCHANGED <<user_groups, lastRead, lastAuth, userVars, response, race>>

NextSync ==
  \/ SetUpQuestion
  \/ SyncAnswers
  \/ CreateAnswer
  \/ DeleteAnswer

SpecSync == Init /\ [][NextSync]_vars

\* ----------------------------------------------------------- answer actions

\* a course with one quiz: a multiple-choice and a single-answer question,
\* or a single-answer question alone
SetUpAnswers ==
  \E zs \in {<<ZGood>>, <<Quiz(0, "Z", <<QSingle>>)>>} :
    LET data == Course("T1", "valid", <<>>, zs)
        r == create_course(DB, data)
    IN /\ courses = {}
       /\ Commit(r.db)
       /\ last' = Call("create_course", 0, data, None, r)
       /\ UNCHANGED <<user_groups, lastRead, lastAuth, userVars, response, race>>

\* AnswerService.delete_answers_by_question(question_id)
DeleteAnswersByQuestion ==
  \E question_id \in 1..(Cardinality(questions) + 1) :
    LET r == delete_answers_by_question(DB, question_id)
    IN /\ courses # {}
       /\ Commit(r.db)
       /\ last' = Call("delete_answers_by_question", question_id, None, None, r)
       /\ UNCHANGED <<user_groups, lastRead, lastAuth, userVars, response, race>>

NextAnswers ==
  \/ SetUpAnswers
  \/ CreateAnswer
  \/ DeleteAnswer
  \/ DeleteAnswersByQuestion

SpecAnswers == Init /\ [][NextAnswers]_vars

\* ----------------------------------------------------------- lesson actions

\* video_url of lesson lesson_id as a call finds it (None: no such lesson)
VideoUrlOf(lesson_id) ==
  IF \E l \in lessons : l.id = lesson_id
  THEN (CHOOSE l \in lessons : l.id = lesson_id).video_url
  ELSE None

\* a course without children, for the lessons to attach to
SetUpCourse ==
  LET data == Course("T1", "valid", <<>>, <<>>)
      r == create_course(DB, data)
  IN /\ courses = {}
     /\ Commit(r.db)
     /\ last' = Call("create_course", 0, data, None, r)
     /\ UNCHANGED <<user_groups, lastRead, lastAuth, userVars, response, race>>

\* LessonService.create_lesson(lesson_data)
CreateLesson ==
  \E t \in {"L", ""}, video \in BOOLEAN, course \in 1..2 :
    LET lesson_data == [title |-> t, video |-> video, course |-> course]
        r == create_lesson(DB, lesson_data)
    IN /\ courses # {}
       /\ r.db.next.lesson <= MaxRows + 1
       /\ r.db.files <= MaxFiles
       /\ Commit(r.db)
       /\ last' = Call("create_lesson", 0, lesson_data, None, r)
       /\ UNCHANGED <<user_groups, lastRead, lastAuth, userVars, response, race>>

\* LessonService.update_lesson(lesson_id, lesson_data)
UpdateLesson ==
  \E lesson_id \in 1..(MaxRows + 1), t \in {None, "L2", ""}, video \in BOOLEAN :
    LET lesson_data == [title |-> t, video |-> video]
        r == update_lesson(DB, lesson_id, lesson_data)
    IN /\ courses # {}
       /\ r.db.files <= MaxFiles
       /\ Commit(r.db)
       /\ last' = Call("update_lesson", lesson_id, lesson_data, VideoUrlOf(lesson_id), r)
       /\ UNCHANGED <<user_groups, lastRead, lastAuth, userVars, response, race>>

NextLesson ==
  \/ SetUpCourse
  \/ CreateLesson
  \/ UpdateLesson

SpecLesson == Init /\ [][NextLesson]_vars

\* ------------------------------------------------------------- role model

\* obj.groups.values_list('name', flat=True): the current membership rows
CachedGroups(u) == lastRead.groups

groups_values_list(u) == user_groups

\* user.groups.add(group)
GroupAdd(g) ==
  /\ g \notin user_groups
  /\ user_groups' = user_groups \cup {g}
  /\ UNCHANGED <<tables, last, lastRead, lastAuth, userVars, response, race>>

\* user.groups.remove(group)
GroupRemove(g) ==
  /\ g \in user_groups
  /\ user_groups' = user_groups \ {g}
  /\ UNCHANGED <<tables, last, lastRead, lastAuth, userVars, response, race>>

\* InstructorSerializer(user).data["role"]
ReadBaseRole ==
  /\ lastRead' = [resolver |-> "base",
                  role |-> BaseUserSerializer_get_role(groups_values_list("u")),
                  groups |-> groups_values_list("u")]
  /\ UNCHANGED <<tables, last, user_groups, lastAuth, userVars, response, race>>

\* UserSerializer(user).data["role"]
ReadUserRole ==
  /\ lastRead' = [resolver |-> "user",
                  role |-> UserSerializer_get_role(groups_values_list("u")),
                  groups |-> groups_values_list("u")]
  /\ UNCHANGED <<tables, last, user_groups, lastAuth, userVars, response, race>>

NextRole ==
  \/ \E g \in GroupNames : GroupAdd(g)
  \/ \E g \in GroupNames : GroupRemove(g)
  \/ ReadBaseRole
  \/ ReadUserRole

SpecRole == Init /\ [][NextRole]_vars

\* ------------------------------------------------------------- gate model

\* The gate keeps nothing between requests (a fresh JWTAuthentication per
\* call), so a behaviour follows one request through it.
Gate ==
  \E path \in Paths, h \in Headers, ub \in UsersBefore :
    /\ lastAuth = NoAuth
    /\ lastAuth' = [path |-> path, header |-> h, user_before |-> ub,
                    result |-> authenticate_request(path, h, ub)]
    /\ UNCHANGED <<tables, last, user_groups, lastRead, userVars, response, race>>

NextAuth == Gate

SpecAuth == Init /\ [][NextAuth]_vars

\* ------------------------------------------------------------- user actions

UDB == [groups |-> auth_group, users |-> auth_user]

\* names of the Group rows an administrator creates
UserGroupNames == {"Admin", "admin", "Student"}

UserInputs ==
  [username : {"u1", "u2", "u3"}, email : {"e1", "e2", "e3"}, first_name : {"F", None},
   role : RoleInputs \cup {None}]

\* Group.objects.create(name=g)
GroupCreate ==
  \E g \in UserGroupNames :
    /\ g \notin auth_group
    /\ auth_group' = auth_group \cup {g}
    /\ lastUser' = [NoUserCall EXCEPT !.op = "group_create", !.role = g]
    /\ UNCHANGED <<tables, last, user_groups, lastRead, lastAuth, auth_user, response, race>>

\* DashUsersService.create_user(data)
CreateUser ==
  \E data \in UserInputs :
    LET r == create_user(UDB, data)
    IN /\ Cardinality(auth_user) < MaxUsers
       /\ auth_user' = r.udb.users
       /\ auth_group' = r.udb.groups
       /\ lastUser' = [op |-> "create_user", username |-> data.username,
                       email |-> data.email, first_name |-> data.first_name,
                       role |-> data.role, err |-> r.err, id |-> r.id]
       /\ UNCHANGED <<tables, last, user_groups, lastRead, lastAuth, response, race>>

NextUser ==
  \/ GroupCreate
  \/ CreateUser

SpecUser == Init /\ [][NextUser]_vars

\* ------------------------------------------------------------- view actions

\* POST /courses/
PostCourse ==
  \E data \in {Course(t, i, <<>>, <<>>) : t \in Titles, i \in {"valid", None}} :
    LET v == CoursesView_post(DB, data)
    IN /\ Commit(v.r.db)
       /\ last' = Call("create_course", 0, data, None, v.r)
       /\ response' = v.response
       /\ UNCHANGED <<user_groups, lastRead, lastAuth, userVars, race>>

\* POST /courses/<course_id>/lessons/
PostLesson ==
  \E course_id \in {1}, course \in 0..Cardinality(Titles), t \in {"L", ""} :
    LET lesson_data == [title |-> t, video |-> FALSE, course |-> course, course_id |-> course_id]
        v == LessonsView_post(DB, course_id, lesson_data)
    IN /\ next_id.lesson <= MaxRows
       /\ Commit(v.r.db)
       /\ last' = Call("create_lesson", course_id, lesson_data, None, v.r)
       /\ response' = v.response
       /\ UNCHANGED <<user_groups, lastRead, lastAuth, userVars, race>>

\* POST /quizzes/
PostQuiz ==
  \E course \in 0..Cardinality(Titles), t \in {"Z", ""} :
    LET data == [title |-> t, course |-> course]
        v == QuizzesView_post(DB, data)
    IN /\ next_id.quiz <= MaxRows
       /\ Commit(v.r.db)
       /\ last' = Call("create_quiz", 0, data, None, v.r)
       /\ response' = v.response
       /\ UNCHANGED <<user_groups, lastRead, lastAuth, userVars, race>>

\* POST /quizzes/<quiz_id>/questions/
PostQuestion ==
  \E quiz_id \in 0..MaxRows, t \in {"Q", ""} :
    LET data == [text |-> t]
        v == QuestionsView_post(DB, quiz_id, data)
    IN /\ next_id.question <= MaxRows
       /\ Commit(v.r.db)
       /\ last' = Call("create_question", quiz_id, data, None, v.r)
       /\ response' = v.response
       /\ UNCHANGED <<user_groups, lastRead, lastAuth, userVars, race>>

\* POST /users/
PostUser ==
  \E data \in {d \in UserInputs : d.username = "u1" /\ d.email = "e1"
                                   /\ d.role \in {None, "teacher"}} :
    LET v == UsersView_post(UDB, data)
    IN /\ Cardinality(auth_user) < MaxUsers
       /\ auth_user' = v.r.udb.users
       /\ auth_group' = v.r.udb.groups
       /\ lastUser' = [op |-> "create_user", username |-> data.username,
                       email |-> data.email, first_name |-> data.first_name,
                       role |-> data.role, err |-> v.r.err, id |-> v.r.id]
       /\ response' = v.response
       /\ UNCHANGED <<tables, last, user_groups, lastRead, lastAuth, race>>

NextView ==
  \/ PostCourse
  \/ PostLesson
  \/ PostQuiz
  \/ PostQuestion
  \/ PostUser

SpecView == Init /\ [][NextView]_vars

\* -------------------------------------------------------- role round trip

\* the three role groups of the application
RoleGroups == {"Admin", "Instructor", "Student"}

\* the Group rows Admin, Instructor and Student are created
SetUpGroups ==
  /\ auth_group = {}
  /\ auth_group' = RoleGroups
  /\ lastUser' = [NoUserCall EXCEPT !.op = "group_create"]
  /\ UNCHANGED <<tables, last, user_groups, lastRead, lastAuth, auth_user, response, race>>

\* DashUsersService.create_user(data) with a role
CreateRoleUser ==
  \E k \in {<<"u1", "e1">>, <<"u2", "e2">>, <<"u3", "e3">>},
     role \in {"admin", "instructor", "student"} :
    LET data == [username |-> k[1], email |-> k[2], first_name |-> "F", role |-> role]
        r == create_user(UDB, data)
    IN /\ auth_group # {}
       /\ Cardinality(auth_user) < MaxUsers
       /\ auth_user' = r.udb.users
       /\ auth_group' = r.udb.groups
       /\ lastUser' = [op |-> "create_user", username |-> data.username,
                       email |-> data.email, first_name |-> data.first_name,
                       role |-> data.role, err |-> r.err, id |-> r.id]
       /\ UNCHANGED <<tables, last, user_groups, lastRead, lastAuth, response, race>>

\* DashUsersService.get_user_by_id(user_id)
ReadUser ==
  \E user_id \in 1..(MaxUsers + 1) :
    LET r == get_user_by_id(UDB, user_id)
    IN /\ auth_group # {}
       /\ lastUser' = [NoUserCall EXCEPT !.op = "get_user", !.err = r.err, !.id = user_id]
       /\ lastRead' = [resolver |-> IF r.err = None THEN "user" ELSE None,
                       role |-> r.role, groups |-> r.groups]
       /\ UNCHANGED <<tables, last, user_groups, lastAuth, auth_group, auth_user, response, race>>

NextRoundTrip ==
  \/ SetUpGroups
  \/ CreateRoleUser
  \/ ReadUser

SpecRoundTrip == Init /\ [][NextRoundTrip]_vars

\* ------------------------------------------------- user emails

EmailCreateInputs ==
  [username : {"u1", "u2", "u3"}, email : {"e1", "e2", None}, first_name : {"F"},
   role : {None}]
EmailUpdateInputs == [username : {"u1", "u3", None}, email : {"e1", "e2", "", None}]

\* DashUsersService.create_user(data), payloads without role
CreateEmailUser ==
  \E data \in EmailCreateInputs :
    LET r == create_user(UDB, data)
    IN /\ Cardinality(auth_user) < MaxUsers
       /\ auth_user' = r.udb.users
       /\ auth_group' = r.udb.groups
       /\ lastUser' = [op |-> "create_user", username |-> data.username,
                       email |-> data.email, first_name |-> data.first_name,
                       role |-> data.role, err |-> r.err, id |-> r.id]
       /\ UNCHANGED <<tables, last, user_groups, lastRead, lastAuth, response, race>>

\* DashUsersService.update_user(user_id, data)
UpdateUser ==
  \E user_id \in 1..(MaxUsers + 1), data \in EmailUpdateInputs :
    LET r == update_user(UDB, user_id, data)
    IN /\ auth_user # {}
       /\ auth_user' = r.udb.users
       /\ auth_group' = r.udb.groups
       /\ lastUser' = [op |-> "update_user", username |-> data.username,
                       email |-> data.email, first_name |-> None,
                       role |-> None, err |-> r.err, id |-> user_id]
       /\ UNCHANGED <<tables, last, user_groups, lastRead, lastAuth, response, race>>

NextEmail ==
  \/ CreateEmailUser
  \/ UpdateUser

SpecEmail == Init /\ [][NextEmail]_vars

\* ------------------------------------------------- interleaved answer syncs

\* question payloads of the two requests
RaceQuestions ==
  {Question("Q", TRUE, <<"A", "B">>, "A"), Question("Q", TRUE, <<"B", "C">>, "C"),
   Question("Q", TRUE, <<"A">>, "B"), Question("Q", FALSE, <<>>, "A"),
   Question("Q", FALSE, <<>>, "B")}

\* a course with a quiz, and in it a question that has no answer yet
SetUpRace ==
  LET data == Course("T1", "valid", <<>>, <<Quiz(0, "Z", <<QSingle>>)>>)
      c == create_course(DB, data)
      r == create_question(c.db, 1, [text |-> "Q"])
  IN /\ courses = {}
     /\ Commit(r.db)
     /\ last' = Call("create_question", 1, data, None, r)
     /\ UNCHANGED <<user_groups, lastRead, lastAuth, userVars, response, race>>

\* request p runs lines 179-182 of _create_or_update_answers: it reads the
\* answers of the question
SyncRead(p) ==
  \E question_data \in RaceQuestions :
    LET question_id == last.id
        got == get_answers_by_question(DB, question_id)
        ex == existing_answers(got.list)
        err == IF got.err # None THEN got.err ELSE ex.err
    IN /\ last.op = "create_question"
       /\ race[p].pc = "idle"
       /\ race' = [race EXCEPT ![p] = [pc |-> IF err # None THEN "done" ELSE "read",
                                        question_id |-> question_id, data |-> question_data,
                                        err |-> err, dict |-> ex.dict]]
       /\ UNCHANGED <<tables, last, user_groups, lastRead, lastAuth, userVars, response>>

\* request p runs lines 184-232: it writes from what it read
SyncWrite(p) ==
  LET r == write_answers(DB, race[p].question_id, race[p].data, race[p].dict)
  IN /\ race[p].pc = "read"
     /\ Commit(r.db)
     /\ race' = [race EXCEPT ![p].pc = "done", ![p].err = r.err]
     /\ UNCHANGED <<last, user_groups, lastRead, lastAuth, userVars, response>>

NextRace ==
  \/ SetUpRace
  \/ \E p \in 1..2 : SyncRead(p)
  \/ \E p \in 1..2 : SyncWrite(p)

SpecRace == Init /\ [][NextRace]_vars

\* =====================================================================
\* Claims
\* =====================================================================

AnswersOf(rows, question_id) == {a \in rows : a.question = question_id}
LiveTitles(rows) == {c.title : c \in {x \in rows : ~x.deleted}}

\* a create_course payload every step of the cascade accepts
PayloadValid(data) ==
  /\ \A i \in 1..Len(data.lessons) : ~Falsy(data.lessons[i].title)
  /\ \A i \in 1..Len(data.quizzes) :
       /\ ~Falsy(data.quizzes[i].title)
       /\ \A j \in 1..Len(data.quizzes[i].questions) :
            ~Falsy(data.quizzes[i].questions[j].title)

CreatePayloadValid(data) ==
  /\ data.instructor = "valid"
  /\ PayloadValid(data)
  /\ \A i \in 1..Len(data.quizzes) : Len(data.quizzes[i].questions) > 0

\* the answers a question payload asks for, as (text, is_correct) pairs
WantedAnswers(q) ==
  IF q.is_multiple_choice
  THEN {<<q.options[k], q.options[k] = q.correct_answer>> : k \in 1..Len(q.options)}
  ELSE {<<q.correct_answer, TRUE>>}
WantedCount(q) == IF q.is_multiple_choice THEN Len(q.options) ELSE 1

\* C1: create_course with a valid instructor, a free title, L lessons and
\* well-formed quizzes returns without error and adds exactly one course, L
\* lessons of that course, one quiz per input quiz and one question per input
\* question; a multiple-choice question gets one answer per option, correct
\* exactly where the option equals correct_answer, a single-answer question
\* gets one answer, correct_answer, marked correct. Older rows are untouched.
C1_Step ==
  (last'.op = "create_course" /\ CreatePayloadValid(last'.data)
     /\ ~(\E c \in courses : c.title = last'.data.title))
  => LET data == last'.data
         newC == courses' \ courses
         newL == lessons' \ lessons
         newZ == SortById(quizzes' \ quizzes)
     IN /\ last'.err = None
        /\ courses \subseteq courses' /\ lessons \subseteq lessons'
        /\ quizzes \subseteq quizzes' /\ questions \subseteq questions'
        /\ answers \subseteq answers'
        /\ newC = {[id |-> last'.id, title |-> data.title, deleted |-> FALSE]}
        /\ Cardinality(newL) = Len(data.lessons)
        /\ \A l \in newL : l.course = last'.id
        /\ Len(newZ) = Len(data.quizzes)
        /\ \A q \in questions' \ questions : \E i \in 1..Len(newZ) : q.quiz = newZ[i].id
        /\ \A a \in answers' \ answers : \E q \in questions' \ questions : a.question = q.id
        /\ \A i \in 1..Len(newZ) :
             LET qin  == data.quizzes[i].questions
                 qout == SortById({q \in questions' : q.quiz = newZ[i].id})
             IN /\ newZ[i].course = last'.id
                /\ newZ[i].title = data.quizzes[i].title
                /\ Len(qout) = Len(qin)
                /\ \A j \in 1..Len(qout) :
                     LET mine == AnswersOf(answers', qout[j].id)
                     IN /\ qout[j].text = qin[j].title
                        /\ Cardinality(mine) = WantedCount(qin[j])
                        /\ {<<a.text, a.is_correct>> : a \in mine} = WantedAnswers(qin[j])
                        /\ \A a \in mine : a.is_multiple_choice = qin[j].is_multiple_choice
C1_CascadeCreate == [][C1_Step]_vars

\* C1 witness: the course of the specification's example has been created:
\* 2 lessons, one quiz, a multiple-choice question whose 3 answers have only
\* "B" correct and a single-answer question whose only answer "X" is correct.
C1_Witness ==
  /\ last.op = "create_course" /\ last.err = None
  /\ Len(last.data.lessons) = 2 /\ last.data.quizzes = <<ZGood>>
  /\ Cardinality({l \in lessons : l.course = last.id}) = 2
  /\ \E z \in quizzes : z.course = last.id /\
       \E q1, q2 \in questions :
         /\ q1.quiz = z.id /\ q2.quiz = z.id /\ q1.text = "Q1" /\ q2.text = "Q2"
         /\ {<<a.text, a.is_correct>> : a \in AnswersOf(answers, q1.id)}
              = {<<"A", FALSE>>, <<"B", TRUE>>, <<"C", FALSE>>}
         /\ {<<a.text, a.is_correct>> : a \in AnswersOf(answers, q2.id)} = {<<"X", TRUE>>}

Distinct(seq) == \A i, j \in 1..Len(seq) : i # j => seq[i] # seq[j]

\* C2: after a multiple-choice sync with options O (distinct labels) and
\* correct_answer c, the question's answers are exactly one per label of O,
\* each with is_correct = (label = c), whatever the answers were before.
C2_SyncIsDiff ==
  (last.op = "sync" /\ last.data.is_multiple_choice
     /\ Len(last.data.options) > 0 /\ Distinct(last.data.options))
  => LET mine == AnswersOf(answers, last.arg)
     IN /\ Cardinality(mine) = Len(last.data.options)
        /\ {<<a.text, a.is_correct>> : a \in mine} = WantedAnswers(last.data)

\* the question payload the previous call synced question_id with
SyncedBy(call, question_id, question_data) ==
  \/ call.op = "sync" /\ call.arg = question_id /\ call.data = question_data
  \/ /\ call.op = "create_course"
     /\ Len(call.data.quizzes) = 1 /\ call.data.quizzes[1].questions = <<question_data>>
     /\ \E q \in questions : q.id = question_id

\* C3: a sync that repeats the payload of the sync just completed on the same
\* question returns without error and leaves the answers table as it is.
C3_Step ==
  (last'.op = "sync" /\ last.err = None
     /\ SyncedBy(last, last'.arg, last'.data))
  => (last'.err = None /\ answers' = answers)
C3_SyncIdempotent == [][C3_Step]_vars

\* C4: a single-answer sync marks the existing answer whose text is
\* correct_answer as correct and creates nothing, or, when there is none,
\* creates exactly one answer (correct_answer, correct, not multiple choice);
\* it deletes nothing.
C4_Step ==
  (last'.op = "sync" /\ ~last'.data.is_multiple_choice)
  => LET c    == last'.data.correct_answer
         mine == AnswersOf(answers, last'.arg)
     IN /\ {a.id : a \in answers} \subseteq {a.id : a \in answers'}
        /\ IF \E a \in mine : a.text = c
           THEN /\ {a.id : a \in answers'} = {a.id : a \in answers}
                /\ \E a \in AnswersOf(answers', last'.arg) : a.text = c /\ a.is_correct
           ELSE \E a \in answers' :
                  /\ a.text = c /\ a.is_correct /\ ~a.is_multiple_choice
                  /\ a.question = last'.arg
                  /\ answers' = answers \cup {a} /\ a \notin answers
C4_SingleSync == [][C4_Step]_vars

NoDuplicateLiveTitles(rows) ==
  \A c1, c2 \in rows : (~c1.deleted /\ ~c2.deleted /\ c1.title = c2.title) => c1.id = c2.id

\* C5: no two non-deleted courses ever share a title, and a create_course or
\* update_course that asks for the title of another non-deleted course fails
\* validation and writes nothing.
C5_Step ==
  /\ NoDuplicateLiveTitles(courses')
  /\ (last'.op \in {"create_course", "update_course"}
        /\ (last'.op = "update_course" => last'.before # None)
        /\ \E c \in courses : ~c.deleted /\ c.title = last'.data.title /\ c.id # last'.arg)
     => (last'.err = "ValidationError" /\ UNCHANGED tables)
C5_UniqueLiveTitles == [][C5_Step]_vars

\* C5 witness: two live courses exist and retitling one to the other's title
\* has just been refused.
C5_Witness ==
  /\ last.op = "update_course" /\ last.err = "ValidationError"
  /\ last.before # None /\ last.data.title # None /\ last.data.title # last.before
  /\ LiveTitles(courses) = Titles

\* C6: create_course with the title of a soft-deleted course, and of no live
\* course, succeeds and leaves a live course with that title.
C6_Step ==
  (last'.op = "create_course" /\ CreatePayloadValid(last'.data)
     /\ last'.data.title \notin LiveTitles(courses)
     /\ \E c \in courses : c.deleted /\ c.title = last'.data.title)
  => (last'.err = None /\ last'.data.title \in LiveTitles(courses'))
C6_ReuseDeletedTitle == [][C6_Step]_vars

\* C7: update_course of a live course whose payload carries the course's own
\* current title (and valid lessons and quizzes) returns without error.
C7_Step ==
  (last'.op = "update_course" /\ last'.before # None
     /\ last'.data.title = last'.before /\ PayloadValid(last'.data))
  => /\ last'.err = None
     /\ \E c \in courses' : c.id = last'.arg /\ ~c.deleted /\ c.title = last'.before
C7_OwnTitleAccepted == [][C7_Step]_vars

\* C7 witness: an update carrying the course's own title has succeeded while
\* another live course exists.
C7_Witness ==
  /\ last.op = "update_course" /\ last.err = None
  /\ last.data.title # None /\ last.data.title = last.before
  /\ Cardinality({c \in courses : ~c.deleted}) = 2

\* the role the priority rule gives a set of group names, in lower case
ExpectedRole(group_names) ==
  LET lowered == {Lower(n) : n \in group_names}
  IN IF "admin" \in lowered THEN "admin"
     ELSE IF "instructor" \in lowered THEN "instructor"
     ELSE IF "student" \in lowered THEN "student"
     ELSE "sentinel"
Canonical(role) == IF role \in {None, "unknown"} THEN "sentinel" ELSE Lower(role)

\* C8: whatever the letter case of the group names, each resolver returns
\* Admin if an admin group is present, else Instructor, else Student, else
\* its sentinel.
C8_RolePriority ==
  lastRead.resolver # None => Canonical(lastRead.role) = ExpectedRole(lastRead.groups)

Resolve(resolver, group_names) ==
  IF resolver = "base" THEN BaseUserSerializer_get_role(group_names)
  ELSE UserSerializer_get_role(group_names)

\* C9: every read returns the role of the membership as it is at that read,
\* and a read changes no stored state.
C9_Step ==
  lastRead' # lastRead
  => /\ lastRead'.role = Resolve(lastRead'.resolver, user_groups)
     /\ UNCHANGED <<tables, user_groups>>
C9_RoleIsFresh == [][C9_Step]_vars

\* C9 witness: the user is now a member of Student only, after having been
\* read as Admin or not at all, and the last read says Student.
C9_Witness ==
  /\ user_groups = {"Student"}
  /\ lastRead.resolver = "base" /\ lastRead.role = "Student"

InScope(path) ==
  /\ StartsWith(path, ApiPrefix)
  /\ ~ \E i \in 1..Len(excluded_routes) : StartsWith(path, excluded_routes[i])
ValidBearer(h) == h.set /\ h.text = <<"Bearer", SP, "good">>

\* C10: a request in scope, off the allowlist and without a valid bearer
\* credential gets an access-denied response from the gate.
C10_GateComplete ==
  (lastAuth # NoAuth /\ InScope(lastAuth.path) /\ ~ValidBearer(lastAuth.header))
  => lastAuth.result \in Denied

Allowlisted(path) == \E i \in 1..Len(excluded_routes) : StartsWith(path, excluded_routes[i])
ExpiredBearer(h) == h.set /\ h.text = <<"Bearer", SP, "expired">>

\* C11: a request to an allowlisted route (login, logout) that carries no
\* credential is let through (the gate returns None); a request to an /api/
\* route off the allowlist with an expired bearer token gets the "Invalid or
\* expired token." response, and one without header gets the different
\* "Authorization credentials not provided." response.
C11_GateOutcomes ==
  /\ (lastAuth # NoAuth /\ Allowlisted(lastAuth.path) /\ ~lastAuth.header.set)
       => lastAuth.result = None
  /\ (lastAuth # NoAuth /\ InScope(lastAuth.path) /\ ExpiredBearer(lastAuth.header))
       => lastAuth.result = "Forbidden:invalid_token"
  /\ (lastAuth # NoAuth /\ InScope(lastAuth.path) /\ ~lastAuth.header.set)
       => (lastAuth.result = "Forbidden:no_credentials"
           /\ lastAuth.result # "Forbidden:invalid_token")

\* C11 witness: an expired bearer token on the courses route has been refused
\* as invalid or expired.
C11_Witness ==
  /\ lastAuth.path = <<"/api/", "v1", "/courses/">>
  /\ ExpiredBearer(lastAuth.header)
  /\ lastAuth.result = "Forbidden:invalid_token"

\* C12: create_course on a payload without the instructor key fails with an
\* error and writes nothing: the courses, lessons, quizzes, questions and
\* answers are those of before the call.
C12_Step ==
  (last'.op = "create_course" /\ last'.data.instructor = None)
  => (last'.err # None /\ UNCHANGED tables)
C12_NoInstructorNoWrite == [][C12_Step]_vars

\* C12 witness: a payload without instructor, carrying a lesson and a quiz,
\* has been refused while another course is stored.
C12_Witness ==
  /\ last.op = "create_course" /\ last.data.instructor = None
  /\ last.err = "ValueError: Instructor is required"
  /\ Len(last.data.lessons) > 0 /\ Len(last.data.quizzes) > 0
  /\ courses # {}

\* C13: in every state reached through create_course and update_course, runs
\* that end in an error included, each quiz a course cascade created has at
\* least one question.
C13_QuizHasQuestion ==
  \A z \in quizzes : \E q \in questions : q.quiz = z.id

\* C14: every lesson and every quiz references a course that exists and is
\* not deleted, every question references an existing quiz and every answer
\* an existing question, after any sequence of service calls.
C14_NoOrphans ==
  /\ \A l \in lessons : \E c \in courses : c.id = l.course /\ ~c.deleted
  /\ \A z \in quizzes : \E c \in courses : c.id = z.course /\ ~c.deleted
  /\ \A q \in questions : \E z \in quizzes : z.id = q.quiz
  /\ \A a \in answers : \E q \in questions : q.id = a.question

\* the rows that belong to course course_id
LessonsOfCourse(course_id) == {l \in lessons : l.course = course_id}
QuizzesOfCourse(course_id) == {z \in quizzes : z.course = course_id}
QuestionsOfCourse(course_id) ==
  {q \in questions : \E z \in QuizzesOfCourse(course_id) : q.quiz = z.id}
AnswersOfCourse(course_id) ==
  {a \in answers : \E q \in QuestionsOfCourse(course_id) : a.question = q.id}

\* C15: after delete_course(c) returns, no lesson or quiz of c, no question
\* of those quizzes and no answer of those questions can be retrieved, and
\* the rows of every other course are as before.
C15_Step ==
  (last'.op = "delete_course" /\ last'.err = None)
  => LET c == last'.arg
     IN /\ \A l \in LessonsOfCourse(c) : get_lesson_by_id(DB', l.id) = "Http404"
        /\ \A z \in QuizzesOfCourse(c) : get_quiz_by_id(DB', z.id) = "Http404"
        /\ \A q \in QuestionsOfCourse(c) : get_question_by_id(DB', q.id) = "Http404"
        /\ \A a \in AnswersOfCourse(c) : get_answer_by_id(DB', a.id) = "Http404"
        /\ lessons \ LessonsOfCourse(c) \subseteq lessons'
        /\ quizzes \ QuizzesOfCourse(c) \subseteq quizzes'
        /\ questions \ QuestionsOfCourse(c) \subseteq questions'
        /\ answers \ AnswersOfCourse(c) \subseteq answers'
        /\ {x \in courses : x.id # c} \subseteq courses'
C15_DeleteCascades == [][C15_Step]_vars

\* C16: create_user with a role: when no group carries the capitalized role
\* the call fails with the "does not exist" error and the users are as
\* before; when the group exists and the call returns, exactly one user was
\* added and it is a member of that group and of no other.
C16_Step ==
  (lastUser'.op = "create_user" /\ lastUser'.role # None)
  => IF Capitalize(lastUser'.role) \notin auth_group
     THEN lastUser'.err = "ValueError: Group does not exist" /\ auth_user' = auth_user
     ELSE /\ lastUser'.err # "ValueError: Group does not exist"
          /\ lastUser'.err # None => auth_user' = auth_user
          /\ lastUser'.err = None =>
               \E u \in auth_user' :
                 /\ u.id = lastUser'.id /\ u \notin auth_user
                 /\ auth_user' = auth_user \cup {u}
                 /\ u.groups = {Capitalize(lastUser'.role)}
C16_RoleResolved == [][C16_Step]_vars

\* C16 witness: a user sent with role "ADMIN" was created into the group
\* Admin while a group named admin also exists, and an earlier user exists.
C16_Witness ==
  /\ lastUser.op = "create_user" /\ lastUser.role = "ADMIN" /\ lastUser.err = None
  /\ {"Admin", "admin"} \subseteq auth_group
  /\ Cardinality(auth_user) = 2
  /\ \E u \in auth_user : u.id = lastUser.id /\ u.groups = {"Admin"}

\* C17: delete_answers_by_question on a question without answers raises an
\* error and leaves the answers as they are; on a question with answers it
\* removes exactly the answers of that question and returns without error.
C17_Step ==
  last'.op = "delete_answers_by_question"
  => LET mine == AnswersOf(answers, last'.arg)
     IN IF mine = {}
        THEN last'.err # None /\ answers' = answers
        ELSE last'.err = None /\ answers' = answers \ mine
C17_DeleteAllAnswers == [][C17_Step]_vars

\* C17 witness: the answers of one question were removed in one call and the
\* answers of the other question are still stored.
C17_Witness ==
  /\ last.op = "delete_answers_by_question" /\ last.err = None
  /\ \E q \in questions : q.id = last.arg
  /\ AnswersOf(answers, last.arg) = {}
  /\ \E q \in questions : q.id # last.arg /\ AnswersOf(answers, q.id) # {}

\* C18: a POST create of a course, lesson, quiz, question or user that
\* created the entity is answered with status 201.
C18_Created201 ==
  response.created # 0 => response.status = 201

\* a quiz payload the create cascade rejects
QuizRejected(z) ==
  \/ Len(z.questions) = 0
  \/ Falsy(z.title)
  \/ \E j \in 1..Len(z.questions) : Falsy(z.questions[j].title)
\* index of the first rejected quiz of a list, 0 when there is none
FirstRejected(zs) ==
  IF \E i \in 1..Len(zs) : QuizRejected(zs[i])
  THEN CHOOSE i \in 1..Len(zs) : QuizRejected(zs[i]) /\ \A j \in 1..(i - 1) : ~QuizRejected(zs[j])
  ELSE 0
\* number of questions of z processed before the cascade raises in z
QuestionsBeforeFailure(z) ==
  IF Len(z.questions) = 0 \/ Falsy(z.title) THEN 0
  ELSE (CHOOSE j \in 1..Len(z.questions) :
          Falsy(z.questions[j].title) /\ \A i \in 1..(j - 1) : ~Falsy(z.questions[i].title)) - 1
\* quiz row zrow of course course_id holds quiz payload zin with exactly its
\* first n questions and their answers, in the tables qrows and arows
QuizPersisted(zrow, zin, n, course_id, qrows, arows) ==
  LET qout == SortById({q \in qrows : q.quiz = zrow.id})
  IN /\ zrow.course = course_id /\ zrow.title = zin.title
     /\ Len(qout) = n
     /\ \A j \in 1..n :
          /\ qout[j].text = zin.questions[j].title
          /\ {<<a.text, a.is_correct>> : a \in AnswersOf(arows, qout[j].id)}
               = WantedAnswers(zin.questions[j])

\* C19: when create_course (valid instructor, free title, valid lessons)
\* meets its first rejected quiz at position k, the error reaches the caller,
\* the course, every input lesson and quizzes 1..k-1 with their questions and
\* answers are persisted, and nothing is created for any later step: no quiz
\* after k, and of quiz k at most the quiz and the questions that precede the
\* untitled one.
C19_Step ==
  (last'.op = "create_course" /\ last'.data.instructor = "valid"
     /\ ~(\E c \in courses : c.title = last'.data.title)
     /\ (\A i \in 1..Len(last'.data.lessons) : ~Falsy(last'.data.lessons[i].title))
     /\ FirstRejected(last'.data.quizzes) # 0)
  => LET data == last'.data
         k    == FirstRejected(data.quizzes)
         n    == QuestionsBeforeFailure(data.quizzes[k])
         newL == lessons' \ lessons
         newZ == SortById(quizzes' \ quizzes)
     IN /\ last'.err # None
        /\ courses' = courses \cup {[id |-> last'.id, title |-> data.title, deleted |-> FALSE]}
        /\ lessons \subseteq lessons' /\ quizzes \subseteq quizzes'
        /\ questions \subseteq questions' /\ answers \subseteq answers'
        /\ Cardinality(newL) = Len(data.lessons)
        /\ \A l \in newL : l.course = last'.id
        /\ Len(newZ) \in {k - 1, k}
        /\ \A i \in 1..(k - 1) :
             QuizPersisted(newZ[i], data.quizzes[i], Len(data.quizzes[i].questions),
                           last'.id, questions', answers')
        /\ Len(newZ) = k => QuizPersisted(newZ[k], data.quizzes[k], n,
                                          last'.id, questions', answers')
        /\ \A q \in questions' \ questions : \E i \in 1..Len(newZ) : q.quiz = newZ[i].id
        /\ \A a \in answers' \ answers : \E q \in questions' \ questions : a.question = q.id
C19_PartialCascade == [][C19_Step]_vars

\* C19 witness: a create whose second quiz has no title failed with a third
\* quiz still to come in the payload, or at the end of it; the course, its
\* lessons and the first quiz with its two questions are stored, and no
\* other quiz of the course is.
C19_Witness ==
  /\ last.op = "create_course" /\ last.err = "ValueError: Quiz title/text is missing."
  /\ Len(last.data.lessons) = MaxLessons
  /\ FirstRejected(last.data.quizzes) = 2
  /\ \E c \in courses : c.id = last.id
  /\ Cardinality({l \in lessons : l.course = last.id}) = MaxLessons
  /\ \E z \in quizzes :
       /\ {x \in quizzes : x.course = last.id} = {z}
       /\ QuizPersisted(z, ZGood, 2, last.id, questions, answers)

\* ids carried by a list of lesson or quiz payloads
IncomingIds(items) == {items[i].id : i \in 1..Len(items)}

\* C20: update_course leaves every lesson and quiz of the course whose id is
\* not in the incoming lists exactly as it was, whatever the outcome of the
\* call, so the course has at least as many lessons and quizzes afterwards.
C20_Step ==
  last'.op = "update_course"
  => LET c == last'.arg
     IN /\ \A l \in LessonsOfCourse(c) :
             l.id \notin IncomingIds(last'.data.lessons) => l \in lessons'
        /\ \A z \in QuizzesOfCourse(c) :
             z.id \notin IncomingIds(last'.data.quizzes) => z \in quizzes'
        /\ Cardinality({l \in lessons' : l.course = c}) >= Cardinality(LessonsOfCourse(c))
        /\ Cardinality({z \in quizzes' : z.course = c}) >= Cardinality(QuizzesOfCourse(c))
C21_Step ==
  last'.op = "update_course"
  => /\ questions \subseteq questions'
     /\ answers \subseteq answers'
     /\ \A q \in questions' \ questions : \E z \in quizzes' : z.id = q.quiz /\ z \notin quizzes
                                                /\ \A y \in quizzes : y.id # z.id
     /\ \A a \in answers' \ answers : \E q \in questions' \ questions : q.id = a.question
NotOwnLessons(items, course_id) ==
  {i \in 1..Len(items) : items[i].id \notin {l.id : l \in LessonsOfCourse(course_id)}}

\* C22: update_course on a live course X treats an incoming lesson as an
\* update only when its id is that of a lesson of X; every other incoming
\* lesson becomes a new lesson of X, and the lessons and quizzes of the other
\* courses are left as they are.
C22_Step ==
  (last'.op = "update_course" /\ last'.before # None)
  => LET c == last'.arg
         newL == lessons' \ lessons
     IN /\ {l \in lessons : l.course # c} = {l \in lessons' : l.course # c}
        /\ {z \in quizzes : z.course # c} = {z \in quizzes' : z.course # c}
        /\ last'.err = None =>
             /\ Cardinality({l \in newL : \A x \in lessons : x.id # l.id})
                  = Cardinality(NotOwnLessons(last'.data.lessons, c))
             /\ \A l \in newL : l.course = c
             /\ \A i \in NotOwnLessons(last'.data.lessons, c) :
                  \E l \in newL : l.title = last'.data.lessons[i].title
                                   /\ \A x \in lessons : x.id # l.id
C22_OwnLessonsOnly == [][C22_Step]_vars

\* C22 witness: an update of one course carried the id of the other course's
\* lesson: that lesson still has its title and the updated course has a new
\* lesson with the incoming title.
C22_Witness ==
  /\ last.op = "update_course" /\ last.err = None
  /\ last.data.lessons = <<Lesson(1, "L2", FALSE)>>
  /\ \E l \in lessons : l.id = 1 /\ l.course # last.arg /\ l.title = "L"
  /\ \E l \in LessonsOfCourse(last.arg) : l.id # 1 /\ l.title = "L2"

\* the video_url the operation must leave: the path the storage returned
\* when the data carries a video, the empty string when it carries none
ExpectedVideoUrl(lesson_data) ==
  IF lesson_data.video THEN handle_video_upload(DB).url ELSE ""

\* C23: a lesson create or update that returns leaves the lesson with the
\* path returned by the storage as video_url when the data carries a video,
\* and with an empty video_url when it carries none, whatever it was before.
C23_Step ==
  /\ (last'.op = "create_lesson" /\ last'.err = None)
       => \E l \in lessons' : l.id = last'.id /\ l.video_url = ExpectedVideoUrl(last'.data)
  /\ (last'.op = "update_lesson" /\ last'.err = None)
       => \E l \in lessons' : l.id = last'.arg /\ l.video_url = ExpectedVideoUrl(last'.data)
C23_VideoUrl == [][C23_Step]_vars

\* C23 witness: a lesson that had a stored video was updated without one
\* and its video_url is now empty.
C23_Witness ==
  /\ last.op = "update_lesson" /\ last.err = None
  /\ ~last.data.video /\ last.before = StoredVideoUrl
  /\ \E l \in lessons : l.id = last.arg /\ l.video_url = ""

\* C24: a create or update that validation rejects leaves the persisted
\* state as it was: the rows of every table and the stored video files.
C24_Step ==
  last'.err = "ValidationError" => UNCHANGED tables
C24_RejectedWritesNothing == [][C24_Step]_vars

\* C25: with the groups Admin, Instructor and Student in place, a user
\* created with role admin, instructor or student and read back through
\* get_user_by_id is reported with that role, not with the sentinel.
C25_RoleRoundTrip ==
  (lastUser.op = "get_user" /\ lastUser.err = None)
  => \A r \in {"admin", "instructor", "student"} :
       lastRead.groups = {Capitalize(r)} => lastRead.role = r

\* C26: when two answer syncs of the same question with the same
\* multiple-choice options have both run, interleaved in any way, no two
\* answers of the question have the same text.
C26_NoDuplicateUnderRace ==
  (/\ race[1].pc = "done" /\ race[2].pc = "done"
   /\ race[1].data = race[2].data /\ race[1].data.is_multiple_choice)
  => \A a1, a2 \in AnswersOf(answers, race[1].question_id) :
       a1.text = a2.text => a1.id = a2.id

\* C27: after a multiple-choice sync that returns, whatever its options
\* sequence (labels may repeat), the question has at most one answer per
\* text, and as many answers as there are distinct labels in options.
C27_OneAnswerPerLabel ==
  (last.op = "sync" /\ last.err = None /\ last.data.is_multiple_choice)
  => LET mine == AnswersOf(answers, last.arg)
     IN /\ \A a1, a2 \in mine : a1.text = a2.text => a1.id = a2.id
        /\ Cardinality(mine) = Cardinality(Range(last.data.options))

\* C28: a single-answer sync that follows a single-answer sync of the same
\* question (the question then holds that sync's one correct answer) leaves
\* exactly one answer of the question marked correct: the one whose text is
\* the correct_answer of the later sync.
C28_Step ==
  (/\ last'.op = "sync" /\ ~last'.data.is_multiple_choice
   /\ last.err = None
   /\ \E c \in Labels :
        /\ SyncedBy(last, last'.arg, Question("Q", FALSE, <<>>, c))
        /\ {<<a.text, a.is_correct>> : a \in AnswersOf(answers, last'.arg)} = {<<c, TRUE>>})
  => LET marked == {a \in AnswersOf(answers', last'.arg) : a.is_correct}
     IN /\ Cardinality(marked) = 1
        /\ \A a \in marked : a.text = last'.data.correct_answer
C28_LatestIsCorrect == [][C28_Step]_vars

\* the path that authentication/urls.py routes to the token-refresh handler
RefreshPath == <<"/api/", api_version, "/auth/", "token/refresh/">>

\* C29: the token-refresh route is off the gate's allowlist, and a request to
\* it that carries no valid bearer access token is denied by the gate.
C29_RefreshNeedsAccessToken ==
  /\ ~Allowlisted(RefreshPath)
  /\ (lastAuth.path = RefreshPath /\ ~ValidBearer(lastAuth.header))
       => lastAuth.result \in Denied

\* the email of the payload of the call is held by a stored user
EmailHeld(call, users) == call.email # None /\ \E u \in users : u.email = call.email

\* C30: create_user and update_user reject a payload whose email is held by
\* any stored user, the updated user included, and change no user then; no
\* sequence of creates and updates yields two users with the same non-empty
\* email (users created without the email key all hold the blank email).
C30_Step ==
  /\ (lastUser'.op \in {"create_user", "update_user"} /\ EmailHeld(lastUser', auth_user))
       => (lastUser'.err # None /\ auth_user' = auth_user)
  /\ \A u1, u2 \in auth_user' : (u1.email = u2.email /\ u1.email # "") => u1.id = u2.id
C30_StepAsStated ==
  /\ (lastUser'.op \in {"create_user", "update_user"} /\ EmailHeld(lastUser', auth_user))
       => (lastUser'.err # None /\ auth_user' = auth_user)
  /\ \A u1, u2 \in auth_user' : u1.email = u2.email => u1.id = u2.id
====
